---- MODULE Spec2Model ----
(***************************************************************************)
(* Model of app.py: the image OCR page.  process_image (size gate, decode, *)
(* colour conversion, resize), extract_text_gemini (credential resolution, *)
(* model selection, generation call) and the page script's two button      *)
(* handlers (batch run, clear) operating on st.session_state.ocr_result.    *)
(***************************************************************************)
EXTENDS Integers, Sequences, FiniteSets, TLC

VARIABLES
    environ,         \* os.environ restricted to GEMINI_API_KEY
    secrets,         \* st.secrets restricted to GEMINI_API_KEY / general
    uploaded_files,  \* the file_uploader value of the batch being run
    ocr_result,      \* st.session_state.ocr_result
    pc,              \* position of the page script
    idx,             \* position of the batch loop in uploaded_files
    errors,          \* st.error messages of the current script run
    calls,           \* per processed file: which external calls were made
    prev_keys,       \* filenames held by ocr_result when run was clicked
    arg,             \* argument of a directly applied helper function
    ret              \* its return value

vars == <<environ, secrets, uploaded_files, ocr_result, pc, idx, errors,
          calls, prev_keys, arg, ret>>

-----------------------------------------------------------------------------
(* Bounds of the model.                                                    *)

MaxFiles == 2

-----------------------------------------------------------------------------
(* Constants of app.py.                                                    *)

MAX_FILE_SIZE_MB == 5

MAX_IMAGE_DIMENSION == 1024

MaxBytes == MAX_FILE_SIZE_MB * 1024 * 1024

None == "None"

-----------------------------------------------------------------------------------------------------------------------------------------------------
(* Python arithmetic on the operands of lines 47 and 50.  A float is an    *)
(* IEEE-754 double [limbs, e]: the 53-bit significand is a leading 1       *)
(* followed by four 13-bit limbs, most significant first, and the value is *)
(* the significand (read as an integer) times 2^e.  Operands stay below    *)
(* 2^16, so that no intermediate value leaves the machine integers.        *)

LimbBits == 13

RECURSIVE Pow2(_)
Pow2(n) == IF n = 0 THEN 1 ELSE 2 * Pow2(n - 1)

Base == Pow2(LimbBits)

RECURSIVE BitLen(_)
BitLen(n) == IF n = 0 THEN 0 ELSE 1 + BitLen(n \div 2)

\* Round-half-to-even of a significand: up says the discarded part is above
\* one half, tie says it is exactly one half.
RoundFloat(limbs, e, up, tie) ==
    LET inc == IF up \/ (tie /\ limbs[4] % 2 = 1) THEN 1 ELSE 0
        n4  == limbs[4] + inc
        n3  == limbs[3] + (n4 \div Base)
        n2  == limbs[2] + (n3 \div Base)
        n1  == limbs[1] + (n2 \div Base)
    IN  IF n1 \div Base = 1
        THEN [limbs |-> <<0, 0, 0, 0>>, e |-> e + 1]
        ELSE [limbs |-> <<n1, n2 % Base, n3 % Base, n4 % Base>>, e |-> e]

\* The number of zero bits between the binary point and the first 1 of a/b.
RECURSIVE LeadingZeros(_, _)
LeadingZeros(a, b) == IF 2 * a >= b THEN 0 ELSE 1 + LeadingZeros(2 * a, b)

\* a / b for ints 0 < a < b: the correctly rounded double.
TrueDiv(a, b) ==
    LET z  == LeadingZeros(a, b)
        r0 == a * Pow2(z + 1) - b
        d1 == (r0 * Base) \div b
        r1 == (r0 * Base) % b
        d2 == (r1 * Base) \div b
        r2 == (r1 * Base) % b
        d3 == (r2 * Base) \div b
        r3 == (r2 * Base) % b
        d4 == (r3 * Base) \div b
        r4 == (r3 * Base) % b
    IN  RoundFloat(<<d1, d2, d3, d4>>, 0 - (z + 1 + 4 * LimbBits),
                   2 * r4 > b, 2 * r4 = b)

\* h * f for an int h >= 1 and a float f: the correctly rounded double.
FloatMul(h, f) ==
    LET t4 == h * f.limbs[4]
        t3 == h * f.limbs[3] + (t4 \div Base)
        t2 == h * f.limbs[2] + (t3 \div Base)
        t1 == h * f.limbs[1] + (t2 \div Base)
        t0 == h + (t1 \div Base)
        \* the exact product has x bits too many
        x  == BitLen(t0) - 1
        X  == Pow2(x)
        a1 == (t0 - X) * Base + (t1 % Base)
        a2 == (a1 % X) * Base + (t2 % Base)
        a3 == (a2 % X) * Base + (t3 % Base)
        a4 == (a3 % X) * Base + (t4 % Base)
        dropped == a4 % X
    IN  RoundFloat(<<a1 \div X, a2 \div X, a3 \div X, a4 \div X>>, f.e + x,
                   2 * dropped > X, 2 * dropped = X)

RECURSIVE LimbsToInt(_)
LimbsToInt(limbs) ==
    IF limbs = <<>> THEN 0
    ELSE LimbsToInt(SubSeq(limbs, 1, Len(limbs) - 1)) * Base + limbs[Len(limbs)]

\* int(f) for a float 0 < f < 2^30: truncation toward zero.
IntTrunc(f) ==
    LET s == 0 - f.e
    IN  IF s > 4 * LimbBits THEN 0
        ELSE LimbsToInt(SubSeq(<<1>> \o f.limbs, 1, 5 - (s \div LimbBits)))
                 \div Pow2(s % LimbBits)

Max(a, b) == IF a > b THEN a ELSE b

-----------------------------------------------------------------------------
(* process_image.  An uploaded file is a record                            *)
(*   [name, size, data, decodable, mode, width, height];                   *)
(* an image is [data, mode, width, height].                                *)

NoImage == [data |-> None, mode |-> None, width |-> 0, height |-> 0]

\* image.mode in ("RGBA", "P") -> image.convert("RGB")
ConvertMode(mode) == IF mode \in {"RGBA", "P"} THEN "RGB" ELSE mode

\* Lines 45-50 rounding the scaled edge to the nearest integer.
NewSizeRounded(width, height) ==
    IF width > height
    THEN [width  |-> MAX_IMAGE_DIMENSION,
          height |-> (2 * height * MAX_IMAGE_DIMENSION + width) \div (2 * width)]
    ELSE [width  |-> (2 * width * MAX_IMAGE_DIMENSION + height) \div (2 * height),
          height |-> MAX_IMAGE_DIMENSION]

\* The (new_width, new_height) passed to image.resize.
NewSize(width, height) ==
    IF width > height
    THEN [width  |-> MAX_IMAGE_DIMENSION,
          height |-> IntTrunc(FloatMul(height, TrueDiv(MAX_IMAGE_DIMENSION, width)))]
    ELSE [width  |-> IntTrunc(FloatMul(width, TrueDiv(MAX_IMAGE_DIMENSION, height))),
          height |-> MAX_IMAGE_DIMENSION]

\* Line 33 with the comparison >=.
SizeGateInclusive(uploaded_file) ==
    uploaded_file.size >= MAX_FILE_SIZE_MB * 1024 * 1024

\* Line 33: the size gate.
SizeGate(uploaded_file) ==
    uploaded_file.size > MAX_FILE_SIZE_MB * 1024 * 1024

\* Result [image, error, opened]; opened records whether Image.open was
\* reached.  Image.open raises on unreadable bytes and Image.resize raises
\* on an edge below 1; both are caught by the except clause.
process_image(uploaded_file) ==
    IF SizeGate(uploaded_file)
    THEN [image |-> NoImage, error |-> "SizeExceeded", opened |-> FALSE]
    ELSE IF ~uploaded_file.decodable
    THEN [image |-> NoImage, error |-> "ProcessingFailed", opened |-> TRUE]
    ELSE LET mode   == ConvertMode(uploaded_file.mode)
             width  == uploaded_file.width
             height == uploaded_file.height
         IN  IF Max(width, height) > MAX_IMAGE_DIMENSION
             THEN LET new == NewSize(width, height)
                  IN  IF new.width < 1 \/ new.height < 1
                      THEN [image |-> NoImage, error |-> "ProcessingFailed",
                            opened |-> TRUE]
                      ELSE [image |-> [data |-> uploaded_file.data,
                                       mode |-> mode,
                                       width |-> new.width,
                                       height |-> new.height],
                            error |-> None, opened |-> TRUE]
             ELSE [image |-> [data |-> uploaded_file.data, mode |-> mode,
                              width |-> width, height |-> height],
                   error |-> None, opened |-> TRUE]

-----------------------------------------------------------------------------
(* extract_text_gemini.  environ and secrets are mappings (functions);     *)
(* resp is what the Gemini service answers to this call:                   *)
(*   [list_ok, models, gen_ok, text]                                       *)
(* where models is the sequence returned by genai.list_models(), each      *)
(* [name, supported_generation_methods], list_ok = FALSE when the listing  *)
(* raises and gen_ok = FALSE when generate_content (or .text) raises.      *)

KEY == "GEMINI_API_KEY"

\* The test of lines 67 and 73 as a comparison with "".
FalsyEmptyOnly(v) == v = ""

\* Python truthiness of an api_key value: None and "" are falsy.
Falsy(v) == v = None \/ v = ""

\* sub in s
Contains(sub, s) ==
    \E i \in 1..(Len(s) - Len(sub) + 1) : SubSeq(s, i, i + Len(sub) - 1) = sub

\* s.replace(old, '')
RECURSIVE Remove(_, _)
Remove(s, old) ==
    IF Len(s) < Len(old) THEN s
    ELSE IF SubSeq(s, 1, Len(old)) = old
         THEN Remove(SubSeq(s, Len(old) + 1, Len(s)), old)
         ELSE SubSeq(s, 1, 1) \o Remove(SubSeq(s, 2, Len(s)), old)

InSeq(x, seq) == \E i \in 1..Len(seq) : seq[i] = x

\* The element of seq at the least index of hits, or None: the value a
\* for ... if ...: x = ...; break loop leaves behind.
FirstWhere(seq, hits) ==
    IF hits # {}
    THEN seq[CHOOSE i \in hits : \A j \in hits : i <= j]
    ELSE None

\* Lines 68-71 with the two secrets lookups exchanged.
ResolveKeyGroupFirst(env, sec) ==
    LET from_env == IF KEY \in DOMAIN env THEN env[KEY] ELSE None
    IN  IF ~(from_env = None \/ from_env = "") THEN from_env
        ELSE IF "general" \in DOMAIN sec /\ KEY \in DOMAIN sec["general"]
             THEN sec["general"][KEY]
        ELSE IF KEY \in DOMAIN sec THEN sec[KEY]
        ELSE from_env

\* Lines 60-71: api_key after the environment and the secrets lookups.
ResolveKey(env, sec) ==
    LET from_env == IF KEY \in DOMAIN env THEN env[KEY] ELSE None
    IN  IF ~Falsy(from_env) THEN from_env
        ELSE IF KEY \in DOMAIN sec THEN sec[KEY]
        ELSE IF "general" \in DOMAIN sec /\ KEY \in DOMAIN sec["general"]
             THEN sec["general"][KEY]
        ELSE from_env

\* Line 79: names of the listed models supporting generateContent.
AvailableModels(models) ==
    LET keep == SelectSeq(models,
                    LAMBDA m : "generateContent" \in m.supported_generation_methods)
    IN  [i \in 1..Len(keep) |-> Remove(keep[i].name, "models/")]

preferred_models ==
    <<"gemini-1.5-flash", "gemini-1.5-flash-latest", "gemini-1.5-pro",
      "gemini-1.5-pro-latest", "gemini-pro-vision">>

\* Lines 85-88 with the loops nested the other way: the first available
\* model that is a preferred one.
SelectModelByListing(available_models) ==
    LET IsPreferred(am) == \E i \in 1..5 : preferred_models[i] = am
        HasMarker(am)   == Contains("vision", am) \/ Contains("1.5", am)
        by_listing      ==
            FirstWhere(available_models,
                       {i \in 1..Len(available_models) :
                           IsPreferred(available_models[i])})
    IN  IF by_listing # None THEN by_listing
        ELSE IF available_models # <<>>
             THEN LET by_marker ==
                          FirstWhere(available_models,
                                     {i \in 1..Len(available_models) :
                                         HasMarker(available_models[i])})
                  IN  IF by_marker # None THEN by_marker
                      ELSE available_models[1]
             ELSE None

\* Lines 84-100: the selected model, or None when nothing is available.
SelectModel(available_models) ==
    LET HasMarker(am)   == Contains("vision", am) \/ Contains("1.5", am)
        by_preference   ==
            FirstWhere(preferred_models,
                       {i \in 1..Len(preferred_models) :
                           InSeq(preferred_models[i], available_models)})
    IN  IF ~Falsy(by_preference) THEN by_preference
        ELSE IF available_models # <<>>
             THEN LET by_marker ==
                          FirstWhere(available_models,
                                     {i \in 1..Len(available_models) :
                                         HasMarker(available_models[i])})
                  IN  IF ~Falsy(by_marker) THEN by_marker
                      ELSE available_models[1]
             ELSE None

\* Result [text, error, api_key, listed, selected_model, generated]:
\* text and error are the returned pair, the rest records what was done.
extract_text_gemini(image, env, sec, resp) ==
    LET api_key == ResolveKey(env, sec)
        base == [text |-> None, error |-> None, api_key |-> api_key,
                 listed |-> FALSE, selected_model |-> None,
                 generated |-> FALSE]
    IN  IF Falsy(api_key)
        THEN [base EXCEPT !.error = "MissingCredential"]
        ELSE IF ~resp.list_ok
        THEN [base EXCEPT !.error = "GeminiAPIError", !.listed = TRUE]
        ELSE LET available_models == AvailableModels(resp.models)
                 selected_model   == SelectModel(available_models)
             IN  IF available_models = <<>>
                 THEN [base EXCEPT !.error = "NoCapableModel",
                                   !.listed = TRUE]
                 ELSE IF ~resp.gen_ok
                 THEN [base EXCEPT !.error = "GeminiAPIError",
                                   !.listed = TRUE,
                                   !.selected_model = selected_model,
                                   !.generated = TRUE]
                 ELSE [base EXCEPT !.text = resp.text,
                                   !.listed = TRUE,
                                   !.selected_model = selected_model,
                                   !.generated = TRUE]

-----------------------------------------------------------------------------
(* Inputs: the files a user uploads, the deployments' credentials and the  *)
(* answers of the Gemini service.                                          *)

File(name, size, data, decodable, mode, width, height) ==
    [name |-> name, size |-> size, data |-> data, decodable |-> decodable,
     mode |-> mode, width |-> width, height |-> height]

FilePool ==
    { File("a.png", 4194304, "d1", TRUE, "RGBA", 3000, 2000),
      File("a.png", MaxBytes, "d2", TRUE, "RGB", 800, 600),
      File("b.jpg", 2097152, "d3", TRUE, "P", 1122, 1122),
      File("c.png", MaxBytes + 1, "d4", TRUE, "RGB", 800, 600),
      File("d.png", 1000, "d5", FALSE, None, 0, 0) }

RECURSIVE SeqsUpTo(_, _)
SeqsUpTo(S, n) ==
    IF n = 0 THEN {<<>>}
    ELSE LET shorter == SeqsUpTo(S, n - 1)
         IN  shorter \cup {Append(q, x) : q \in shorter, x \in S}

Batches == SeqsUpTo(FilePool, MaxFiles) \ {<<>>}

EmptyMap == [k \in {} |-> None]

EnvChoices == {EmptyMap, KEY :> "", KEY :> "env-key"}

TopChoices == {EmptyMap, KEY :> "", KEY :> "top-key"}

GeneralChoices ==
    {EmptyMap, "general" :> EmptyMap, "general" :> (KEY :> ""),
     "general" :> (KEY :> "general-key")}

SecretChoices == {top @@ general : top \in TopChoices, general \in GeneralChoices}

\* The deployments of the page machine: no credential anywhere, a secrets
\* group without the key, an empty variable with a grouped secret.
Deployments ==
    { [environ |-> EmptyMap, secrets |-> EmptyMap],
      [environ |-> EmptyMap, secrets |-> "general" :> EmptyMap],
      [environ |-> KEY :> "", secrets |-> "general" :> (KEY :> "general-key")] }

Model(name, methods) == [name |-> name, supported_generation_methods |-> methods]

Generative == {"generateContent", "countTokens"}

ModelPool ==
    { Model("models/gemini-1.5-pro", Generative),
      Model("models/gemini-1.5-flash", Generative),
      Model("models/gemini-pro-vision", Generative),
      Model("models/gemini-1.5-flash-latest", {"embedContent"}),
      Model("models/gemini-1.0-pro-vision-latest", Generative),
      Model("models/gemini-1.5-flash-8b", Generative),
      Model("models/gemini-pro", Generative),
      Model("models/embedding-001", {"embedContent"}) }

MaxListing == 3

Listings ==
    {q \in SeqsUpTo(ModelPool, MaxListing) :
        \A i, j \in 1..Len(q) : i # j => q[i] # q[j]}

Texts == {"", "text-1"}

ListFails == [list_ok |-> FALSE, models |-> <<>>, gen_ok |-> FALSE, text |-> None]

Lists(models) == [list_ok |-> TRUE, models |-> models, gen_ok |-> FALSE, text |-> None]

Generates(models, text) ==
    [list_ok |-> TRUE, models |-> models, gen_ok |-> TRUE, text |-> text]

\* Every answer of the service, for the directly applied extraction.
AllResponses ==
    {ListFails} \cup {Lists(q) : q \in Listings}
                \cup {Generates(q, "text-1") : q \in Listings \ {<<>>}}

PageListing ==
    <<Model("models/gemini-pro", Generative),
      Model("models/gemini-1.5-flash", Generative)>>

\* The answers of the service met by the page machine.
PageResponses ==
    {ListFails, Lists(<<>>), Lists(PageListing)}
        \cup {Generates(PageListing, t) : t \in Texts}

-----------------------------------------------------------------------------
(* st.session_state.ocr_result: "" after line 24, a dict afterwards.  A    *)
(* dict is the sequence of its items in insertion order.                   *)

EmptyStr == [kind |-> "str", items |-> <<>>]

EmptyDict == [kind |-> "dict", items |-> <<>>]

Keys(d) == {d.items[i].name : i \in 1..Len(d.items)}

\* A dict store that keeps the value a key already has.
DictSetKeepFirst(d, name, text, image) ==
    IF name \in {d.items[i].name : i \in 1..Len(d.items)} THEN d
    ELSE [d EXCEPT !.items =
             Append(d.items, [name |-> name, text |-> text, image |-> image])]

\* d[name] = {"text": text, "image": image}
DictSet(d, name, text, image) ==
    LET item == [name |-> name, text |-> text, image |-> image]
    IN  IF name \in Keys(d)
        THEN [d EXCEPT !.items =
                 [i \in 1..Len(d.items) |->
                     IF d.items[i].name = name THEN item ELSE d.items[i]]]
        ELSE [d EXCEPT !.items = Append(d.items, item)]

Lookup(d, name) ==
    d.items[CHOOSE i \in 1..Len(d.items) : d.items[i].name = name]

\* Python truthiness of ocr_result
Truthy(d) == d.items # <<>>

NotInvoked ==
    [text |-> None, error |-> None, api_key |-> None, listed |-> FALSE,
     selected_model |-> None, generated |-> FALSE]

NoCall == [fn |-> None]

-----------------------------------------------------------------------------
(* The page script.                                                        *)

Init ==
    /\ \E dep \in Deployments :
          /\ environ = dep.environ
          /\ secrets = dep.secrets
    /\ uploaded_files = <<>>
    /\ ocr_result = EmptyStr
    /\ pc = "idle"
    /\ idx = 0
    /\ errors = <<>>
    /\ calls = <<>>
    /\ prev_keys = {}
    /\ arg = NoCall
    /\ ret = NoCall

\* Lines 120-125 without line 122.
RunClickKeeping(files) ==
    /\ pc \in {"idle", "done"}
    /\ files # <<>>
    /\ uploaded_files' = files
    /\ ocr_result' = IF ocr_result.kind = "dict" THEN ocr_result ELSE EmptyDict
    /\ pc' = "loop"
    /\ idx' = 1
    /\ errors' = <<>>
    /\ calls' = <<>>
    /\ prev_keys' = Keys(ocr_result)
    /\ UNCHANGED <<environ, secrets, arg, ret>>

\* Lines 120-125: the run button is clicked with a non-empty upload.
RunClick(files) ==
    /\ pc \in {"idle", "done"}
    /\ files # <<>>
    /\ uploaded_files' = files
    /\ ocr_result' = EmptyDict
    /\ pc' = "loop"
    /\ idx' = 1
    /\ errors' = <<>>
    /\ calls' = <<>>
    /\ prev_keys' = Keys(ocr_result)
    /\ UNCHANGED <<environ, secrets, arg, ret>>

\* Line 126: where the for statement goes after an iteration.
NextFile == IF idx < Len(uploaded_files) THEN "loop" ELSE "done"

\* Line 130 as a break.
BreakLoop == "done"

\* Line 130: continue.
Continue == NextFile

\* Lines 133-139 storing whatever came back.
StoreAlways(d, name, ext, image) == DictSet(d, name, ext.text, image)

\* Lines 133-139: the effect of an extraction result on ocr_result.
StoreResult(d, name, ext, image) ==
    IF ext.error # None THEN d
    ELSE IF ext.text # None THEN DictSet(d, name, ext.text, image)
    ELSE d

\* Lines 126-139: one iteration of the batch loop, resp being the answer of
\* the service if it is asked.
LoopBody(file, resp) ==
    LET img == process_image(file)
        ext == extract_text_gemini(img.image, environ, secrets, resp)
    IN  IF img.error # None
        THEN /\ errors' = Append(errors, [name |-> file.name, error |-> img.error])
             /\ calls' = Append(calls, [name |-> file.name, img |-> img,
                                        invoked |-> FALSE, ext |-> NotInvoked])
             /\ pc' = Continue
             /\ idx' = idx + 1
             /\ UNCHANGED ocr_result
        ELSE IF img.image # NoImage
        THEN /\ calls' = Append(calls, [name |-> file.name, img |-> img,
                                        invoked |-> TRUE, ext |-> ext])
             /\ errors' = IF ext.error # None
                          THEN Append(errors, [name |-> file.name,
                                               error |-> ext.error])
                          ELSE errors
             /\ ocr_result' = StoreResult(ocr_result, file.name, ext, img.image)
             /\ pc' = NextFile
             /\ idx' = idx + 1
        ELSE /\ calls' = Append(calls, [name |-> file.name, img |-> img,
                                        invoked |-> FALSE, ext |-> NotInvoked])
             /\ pc' = NextFile
             /\ idx' = idx + 1
             /\ UNCHANGED <<ocr_result, errors>>

ProcessFile ==
    /\ pc = "loop"
    /\ idx <= Len(uploaded_files)
    /\ \E resp \in PageResponses : LoopBody(uploaded_files[idx], resp)
    /\ UNCHANGED <<environ, secrets, uploaded_files, prev_keys, arg, ret>>

\* Lines 168-170 dropping the oldest entry only.
ClearOldest ==
    /\ pc \in {"idle", "done"}
    /\ ocr_result.kind = "dict"
    /\ Truthy(ocr_result)
    /\ ocr_result' = [ocr_result EXCEPT !.items = Tail(ocr_result.items)]
    /\ pc' = "rerun"
    /\ UNCHANGED <<environ, secrets, uploaded_files, idx, errors, calls,
                   prev_keys, arg, ret>>

\* Lines 168-170: the clear button, rendered only below a non-empty dict.
Clear ==
    /\ pc \in {"idle", "done"}
    /\ ocr_result.kind = "dict"
    /\ Truthy(ocr_result)
    /\ ocr_result' = EmptyDict
    /\ pc' = "rerun"
    /\ UNCHANGED <<environ, secrets, uploaded_files, idx, errors, calls,
                   prev_keys, arg, ret>>

\* A script run in which no button reads as clicked: the one st.rerun()
\* starts, or the one another widget starts.  Lines 120-121 and 168 are
\* skipped; the messages of the previous run are gone.
Rerun ==
    /\ pc \in {"rerun", "done"}
    /\ pc' = "idle"
    /\ errors' = <<>>
    /\ UNCHANGED <<environ, secrets, uploaded_files, ocr_result, idx, calls,
                   prev_keys, arg, ret>>

Next ==
    \/ \E files \in Batches : RunClick(files)
    \/ ProcessFile
    \/ Clear
    \/ Rerun

Spec == Init /\ [][Next]_vars

-----------------------------------------------------------------------------
(* The helper functions applied directly, once, to an input drawn from a   *)
(* wider set than the page machine meets.                                  *)

Edges == {1, 49, 561, 683, 800, 1024, 1025, 1122, 2000, 3000, 50176}

ImagePool ==
    {File("x.png", size, "d0", TRUE, mode, width, height) :
        size \in {MaxBytes, MaxBytes + 1}, mode \in {"RGBA", "L"},
        width \in Edges, height \in Edges}
    \cup {File("y.png", 1000, "d9", FALSE, None, 0, 0)}

SampleImage == [data |-> "d0", mode |-> "RGB", width |-> 800, height |-> 600]

InitCalls ==
    /\ environ \in EnvChoices
    /\ secrets \in SecretChoices
    /\ uploaded_files = <<>>
    /\ ocr_result = EmptyStr
    /\ pc = "idle"
    /\ idx = 0
    /\ errors = <<>>
    /\ calls = <<>>
    /\ prev_keys = {}
    /\ arg = NoCall
    /\ ret = NoCall

CallProcessImage ==
    /\ arg = NoCall
    /\ \E f \in ImagePool :
          /\ arg' = [fn |-> "process_image", uploaded_file |-> f]
          /\ ret' = process_image(f)
    /\ UNCHANGED <<environ, secrets, uploaded_files, ocr_result, pc, idx,
                   errors, calls, prev_keys>>

CallExtract ==
    /\ arg = NoCall
    /\ \E resp \in AllResponses :
          /\ arg' = [fn |-> "extract_text_gemini", resp |-> resp]
          /\ ret' = extract_text_gemini(SampleImage, environ, secrets, resp)
    /\ UNCHANGED <<environ, secrets, uploaded_files, ocr_result, pc, idx,
                   errors, calls, prev_keys>>

NextCalls == CallProcessImage \/ CallExtract

SpecCalls == InitCalls /\ [][NextCalls]_vars

-----------------------------------------------------------------------------
(* Properties.                                                             *)

\* A logged iteration that normalized the file and got text back.
Success(c) ==
    /\ c.img.error = None
    /\ c.invoked
    /\ c.ext.error = None
    /\ c.ext.text # None

Successes == {i \in 1..Len(calls) : Success(calls[i])}

DistinctNames ==
    \A i, j \in 1..Len(uploaded_files) :
        i # j => uploaded_files[i].name # uploaded_files[j].name

\* File k is the one undecodable image of a batch of distinct names, every
\* other file is normalized and, when extraction is asked for it, returns
\* text.
OnlyFailureAt(k) ==
    /\ DistinctNames
    /\ ~uploaded_files[k].decodable
    /\ \A i \in 1..Len(uploaded_files) \ {k} :
          /\ process_image(uploaded_files[i]).error = None
          /\ (i <= Len(calls) /\ calls[i].invoked) =>
                (calls[i].ext.error = None /\ calls[i].ext.text # None)

\* C1: batch isolation -- after a run of N files with distinct names of
\* which exactly file k is undecodable and all others succeed, ocr_result
\* has exactly the N-1 other files, exactly one error was reported (for
\* file k) and every file, also those after k, was processed.
C1_BatchIsolation ==
    pc = "done" =>
        \A k \in 1..Len(uploaded_files) :
            OnlyFailureAt(k) =>
                /\ Len(calls) = Len(uploaded_files)
                /\ Len(ocr_result.items) = Len(uploaded_files) - 1
                /\ Keys(ocr_result) =
                      {uploaded_files[i].name :
                          i \in 1..Len(uploaded_files) \ {k}}
                /\ Len(errors) = 1
                /\ errors[1].name = uploaded_files[k].name

C1_Witness ==
    /\ pc = "done"
    /\ Len(uploaded_files) >= 2
    /\ OnlyFailureAt(1)
    /\ Len(errors) = 1
    /\ Keys(ocr_result) =
          {uploaded_files[i].name : i \in 2..Len(uploaded_files)}

\* C2: ResultSet invariant -- a filename is a key of ocr_result only if a
\* file of that name in the most recent run was normalized without
\* rejection and its extraction returned text without error; an iteration
\* that rejects the file or whose extraction fails inserts nothing.
C2_OnlySuccessesAreKeys ==
    /\ [](\A n \in Keys(ocr_result) :
             \E i \in 1..Len(calls) :
                 /\ uploaded_files[i].name = n
                 /\ Success(calls[i]))
    /\ [][(Len(calls') = Len(calls) + 1 /\ ~Success(calls'[Len(calls')]))
             => ocr_result' = ocr_result]_vars

C2_Witness ==
    /\ pc = "done"
    /\ \E i, j \in 1..Len(calls) :
          /\ calls[i].invoked
          /\ calls[i].ext.error # None
          /\ Success(calls[j])
          /\ calls[i].name \notin Keys(ocr_result)
          /\ calls[j].name \in Keys(ocr_result)

\* C3: size gate -- a file whose declared size is above 5 * 1024 * 1024 is
\* rejected as size-exceeded without Image.open being reached and without
\* extract_text_gemini being invoked for it; a file of exactly that size is
\* not rejected by the gate.
C3_SizeGate ==
    \A i \in 1..Len(calls) :
        /\ uploaded_files[i].size > 5 * 1024 * 1024 =>
              /\ calls[i].img.error = "SizeExceeded"
              /\ ~calls[i].img.opened
              /\ ~calls[i].invoked
        /\ uploaded_files[i].size = 5 * 1024 * 1024 =>
              calls[i].img.error # "SizeExceeded"

C3_Witness ==
    \E i, j \in 1..Len(calls) :
        /\ uploaded_files[i].size = 5 * 1024 * 1024 + 1
        /\ calls[i].img.error = "SizeExceeded"
        /\ uploaded_files[j].size = 5 * 1024 * 1024
        /\ calls[j].invoked

\* C4: last write wins -- when files of the same name both succeed in one
\* run, ocr_result afterwards has exactly one entry of that name, with the
\* text and the image of the later one.
C4_LastWriteWins ==
    pc = "done" =>
        \A i, j \in Successes :
            (/\ i < j
             /\ calls[i].name = calls[j].name
             /\ \A m \in Successes : calls[m].name = calls[j].name => m <= j)
            => /\ Cardinality({m \in 1..Len(ocr_result.items) :
                        ocr_result.items[m].name = calls[j].name}) = 1
               /\ Lookup(ocr_result, calls[j].name).text = calls[j].ext.text
               /\ Lookup(ocr_result, calls[j].name).image = calls[j].img.image

C4_Witness ==
    /\ pc = "done"
    /\ \E i, j \in Successes :
          /\ i < j
          /\ calls[i].name = calls[j].name
          /\ calls[i].ext.text # calls[j].ext.text
          /\ calls[i].img.image # calls[j].img.image
          /\ Lookup(ocr_result, calls[j].name).text = calls[j].ext.text

NoCredential ==
    /\ KEY \notin DOMAIN environ
    /\ KEY \notin DOMAIN secrets
    /\ ~("general" \in DOMAIN secrets /\ KEY \in DOMAIN secrets["general"])

ResizeCase ==
    /\ arg.fn = "process_image"
    /\ arg.uploaded_file.decodable
    /\ arg.uploaded_file.size <= 5 * 1024 * 1024
    /\ Max(arg.uploaded_file.width, arg.uploaded_file.height) > 1024

Longer == Max(arg.uploaded_file.width, arg.uploaded_file.height)

Shorter ==
    IF arg.uploaded_file.width > arg.uploaded_file.height
    THEN arg.uploaded_file.height ELSE arg.uploaded_file.width

\* The edge of the result that stems from the shorter edge of the input
\* (the width when both are equal).
ShorterOut ==
    IF arg.uploaded_file.width > arg.uploaded_file.height
    THEN ret.image.height ELSE ret.image.width

LongerOut ==
    IF arg.uploaded_file.width > arg.uploaded_file.height
    THEN ret.image.width ELSE ret.image.height

\* C6 as stated: the longer edge becomes exactly 1024 and the shorter edge
\* round(shorter * 1024 / longer); 3000x2000 becomes 1024x683.
C6_Original ==
    ResizeCase =>
        /\ ret.error = None
        /\ LongerOut = 1024
        /\ ShorterOut = (2 * Shorter * 1024 + Longer) \div (2 * Longer)
        /\ (arg.uploaded_file.width = 3000 /\ arg.uploaded_file.height = 2000)
              => (ret.image.width = 1024 /\ ret.image.height = 683)

\* C6 amended: when a normalized image is returned, the longer edge is
\* exactly 1024 and the shorter edge is shorter * 1024 / longer truncated:
\* the floor of the quotient, or one less when the quotient is an exact
\* integer (the double-precision product falls just below it), never
\* rounded up; 3000x2000 becomes 1024x682 and 1122x1122 becomes 1023x1024.
\* No image is returned only when the truncated edge is 0.
C6_Truncation ==
    ResizeCase =>
        LET floor == (Shorter * 1024) \div Longer
            exact == (Shorter * 1024) % Longer = 0
        IN  IF ret.error = None
            THEN /\ LongerOut = 1024
                 /\ ShorterOut \in {floor, floor - 1}
                 /\ ~exact => ShorterOut = floor
                 /\ ShorterOut >= 1
                 /\ ret.image.data = arg.uploaded_file.data
                 /\ (arg.uploaded_file.width = 3000
                       /\ arg.uploaded_file.height = 2000)
                      => (ret.image.width = 1024 /\ ret.image.height = 682)
                 /\ (arg.uploaded_file.width = 1122
                       /\ arg.uploaded_file.height = 1122)
                      => (ret.image.width = 1023 /\ ret.image.height = 1024)
            ELSE /\ ret.image = NoImage
                 /\ floor = 0 \/ (floor = 1 /\ exact)

C6_Witness ==
    /\ ResizeCase
    /\ arg.uploaded_file.width = 3000
    /\ arg.uploaded_file.height = 2000
    /\ ret.image.width = 1024
    /\ ret.image.height = 682

\* The call in arg/ret is extract_text_gemini with a usable key and a
\* listing that came back.
ListedCase ==
    /\ arg.fn = "extract_text_gemini"
    /\ ret.api_key \notin {None, ""}
    /\ arg.resp.list_ok

\* Identifiers of the listed models that support content generation, in
\* listing order, without the "models/" prefix.
Listed ==
    LET gen == SelectSeq(arg.resp.models,
                   LAMBDA m : "generateContent" \in m.supported_generation_methods)
    IN  [i \in 1..Len(gen) |-> SubSeq(gen[i].name, 8, Len(gen[i].name))]

ListedSet == {Listed[i] : i \in 1..Len(Listed)}

Marked == {i \in 1..Len(Listed) :
              Contains("vision", Listed[i]) \/ Contains("1.5", Listed[i])}

PreferredListed == {p \in 1..Len(preferred_models) : preferred_models[p] \in ListedSet}

Least(S) == CHOOSE x \in S : \A y \in S : x <= y

\* C7: model selection -- the first identifier of the preference list that
\* is available, whatever the order of the listing; otherwise the first
\* available identifier containing 'vision' or '1.5'; otherwise the first
\* available one; with nothing available no model is selected, no
\* generation call is made and NoCapableModel is returned.
C7_ModelSelection ==
    ListedCase =>
        IF Listed = <<>>
        THEN /\ ret.selected_model = None
             /\ ~ret.generated
             /\ ret.error = "NoCapableModel"
        ELSE /\ ret.generated
             /\ ret.selected_model =
                   IF PreferredListed # {}
                   THEN preferred_models[Least(PreferredListed)]
                   ELSE IF Marked # {} THEN Listed[Least(Marked)]
                   ELSE Listed[1]

C7_Witness ==
    /\ ListedCase
    /\ Len(Listed) >= 2
    /\ Listed[1] = "gemini-1.5-pro"
    /\ Listed[2] = "gemini-1.5-flash"
    /\ ret.selected_model = "gemini-1.5-flash"
    /\ ret.generated

EnvPresent == KEY \in DOMAIN environ

TopPresent == KEY \in DOMAIN secrets

GroupPresent == "general" \in DOMAIN secrets /\ KEY \in DOMAIN secrets["general"]

C9_Clear ==
    [][/\ pc' = "rerun" => (ocr_result'.items = <<>> /\ calls' = calls)
       /\ pc = "rerun" => (ocr_result'.items = <<>> /\ calls' = calls
                            /\ pc' = "idle")]_vars

C9_Witness ==
    /\ pc = "rerun"
    /\ Cardinality(Successes) >= 2
    /\ ocr_result = EmptyDict

\* C10: a run replaces ocr_result wholesale -- every entry held during and
\* after a run was produced by a file of that run; entries of earlier runs
\* are gone, and a run without any success leaves the empty dict.
C10_ReplacedWholesale ==
    /\ \A m \in 1..Len(ocr_result.items) :
          \E i \in Successes :
              ocr_result.items[m] = [name  |-> uploaded_files[i].name,
                                     text  |-> calls[i].ext.text,
                                     image |-> calls[i].img.image]
    /\ (pc = "done" /\ Successes = {}) => ocr_result = EmptyDict

C10_Witness ==
    /\ pc = "done"
    /\ prev_keys # {}
    /\ prev_keys \cap Keys(ocr_result) = {}
    /\ ocr_result # EmptyDict

====
